---- MODULE Spec2Model ----
(***************************************************************************)
(* csv2XLsheet: one run of main() in csv2XLsheet.go.                       *)
(*                                                                         *)
(* The source file is a sequence of physical lines, each the sequence of   *)
(* its characters (one-character strings) without the line feed that ends  *)
(* it; the empty sequence is a blank line.  The reader is modelled by what *)
(* encoding/csv does with the two settings main() gives it (Comma,         *)
(* LazyQuotes): blank lines between records are skipped, a field that      *)
(* starts with a quotation mark runs to its closing mark, over line ends   *)
(* and to the end of the file if it is never closed, a quotation mark      *)
(* elsewhere is kept as text, the first record fixes FieldsPerRecord, a    *)
(* later record of another width comes back together with ErrFieldCount,   *)
(* and a separator the package refuses makes every Read fail without       *)
(* consuming input.                                                        *)
(***************************************************************************)
EXTENDS Integers, Sequences, FiniteSets

\* ---------------------------------------------------------------- bounds
MaxLines == 3
MaxStartRow == 3
MaxSheetRows == 2
MaxSheetCols == 2
MaxReadErrors == 4

\* Excel's maximum number of columns, used for an empty sheet.
ExcelMaxCols == 16384

\* ------------------------------------------------------- input alphabets
Quote == "\""

\* runes and bytes that have no one-character spelling here
RuneError == "U+FFFD"
Nul == "U+0000"
InvalidByte == "0xFF"

LineBlank == << >>
LineQ == <<"q", Quote>>
LineAB == <<"a", ",", "b">>
Line123 == <<"1", ",", "2", ",", "3">>
LineXY == <<"x", ",", "y">>
LineOpen == <<Quote, "o">>

LineSet == {LineBlank, LineQ, LineAB, Line123, LineXY, LineOpen}

RECURSIVE SeqsUpTo(_, _)
SeqsUpTo(S, n) ==
    IF n = 0 THEN {<< >>}
    ELSE LET shorter == SeqsUpTo(S, n - 1)
         IN  shorter \cup {Append(s, x) : s \in shorter, x \in S}

Sources == SeqsUpTo(LineSet, MaxLines)

\* values of the -d flag, as sequences of characters
TokenCsv == <<"c", "s", "v">>
TokenTab == <<"t", "a", "b">>
TokenSemi == <<";">>
TokenQuote == <<Quote>>
TokenTwo == <<";", ";">>
TokenReplacement == <<RuneError>>
TokenBadByte == <<InvalidByte>>
DelimiterTokens ==
    {TokenCsv, TokenTab, TokenSemi, TokenQuote, TokenTwo, TokenReplacement, TokenBadByte}

StartRows == -1 .. MaxStartRow

\* what GetRows can return: the first row of any width, later rows full width;
\* GetRows drops trailing empty rows, so a lone empty row is not returned
SheetRow(w) == [k \in 1..w |-> "h"]
SheetMatrix(n, w) == [k \in 1..n |-> IF k = 1 THEN SheetRow(w) ELSE SheetRow(MaxSheetCols)]
SheetMatrices ==
    {<< >>} \cup
    ({SheetMatrix(n, w) : n \in 1..MaxSheetRows, w \in 0..MaxSheetCols}
        \ {SheetMatrix(1, 0)})

TargetSheet == "Data"
SheetLists == {<<"Sheet1">>, <<"Sheet1", "Data">>}

\* ------------------------------------------------------------ pure parts

\* line 69: utf8.DecodeRuneInString gives U+FFFD for a byte that is no UTF-8
DecodeRune(c) == IF c = InvalidByte THEN RuneError ELSE c

\* lines 61-73: the separator for a -d token; "" when the token is refused.
\* utf8.RuneCountInString counts an invalid byte as one rune.
ResolveDelimiter(tok) ==
    IF tok = TokenCsv THEN ","
    ELSE IF tok = TokenTab THEN "\t"
    ELSE IF Len(tok) = 1 THEN DecodeRune(tok[1])
    ELSE ""

\* encoding/csv validDelim, as reached from reader.Read() at line 97: the
\* reader refuses NUL, the quotation mark, CR, LF and U+FFFD as Comma (runes
\* that are not valid Unicode as well; line 69 never produces one)
ValidDelim(d) == d \notin {Nul, Quote, "\r", "\n", RuneError, ""}

NotQuote(c) == c # Quote

\* line 120: strings.ReplaceAll(field, "\"", "")
StripQuotes(field) == SelectSeq(field, NotQuote)

\* lines 119-121
Sanitize(record) == [k \in 1..Len(record) |-> StripQuotes(record[k])]

\* lines 112 and 185: strings.Join(record, string(reader.Comma))
RECURSIVE Join(_, _)
Join(record, sep) ==
    IF Len(record) = 0 THEN << >>
    ELSE IF Len(record) = 1 THEN record[1]
    ELSE record[1] \o <<sep>> \o Join(Tail(record), sep)

\* csv.Reader skips empty lines: the index of the next non-blank line at or
\* after p, or Len(src) + 1 at end of input
RECURSIVE SkipBlank(_, _)
SkipBlank(src, p) ==
    IF p > Len(src) THEN p
    ELSE IF src[p] = LineBlank THEN SkipBlank(src, p + 1)
    ELSE p

\* bytes.IndexRune / bytes.IndexByte: the first position of c in l, 0 if none
IndexOf(l, c) ==
    IF \E i \in 1..Len(l) : l[i] = c
    THEN CHOOSE i \in 1..Len(l) : l[i] = c /\ \A j \in 1..(i - 1) : l[j] # c
    ELSE 0

\* csv.Reader.readRecord with LazyQuotes: the fields of the record that
\* starts on line p, and the line the next record starts on.
\* ParseField is at the start of a field, l the rest of line p;
\* ParseQuoted is inside a quoted field whose text so far is buf.
RECURSIVE ParseField(_, _, _, _, _)
RECURSIVE ParseQuoted(_, _, _, _, _, _)
ParseField(src, p, l, rec, d) ==
    IF Len(l) > 0 /\ l[1] = Quote
    THEN ParseQuoted(src, p, Tail(l), rec, <<>>, d)
    ELSE LET i == IndexOf(l, d) IN
         IF i > 0
         THEN ParseField(src, p, SubSeq(l, i + 1, Len(l)), Append(rec, SubSeq(l, 1, i - 1)), d)
         ELSE [record |-> Append(rec, l), pos |-> p + 1]

ParseQuoted(src, p, l, rec, buf, d) ==
    LET i == IndexOf(l, Quote) IN
    IF i > 0
    THEN LET text == buf \o SubSeq(l, 1, i - 1)
             rest == SubSeq(l, i + 1, Len(l))
         IN  IF Len(rest) > 0 /\ rest[1] = Quote
             THEN ParseQuoted(src, p, Tail(rest), rec, Append(text, Quote), d)
             ELSE IF Len(rest) > 0 /\ rest[1] = d
             THEN ParseField(src, p, Tail(rest), Append(rec, text), d)
             ELSE IF Len(rest) = 0
             THEN [record |-> Append(rec, text), pos |-> p + 1]
             ELSE ParseQuoted(src, p, rest, rec, Append(text, Quote), d)
    ELSE \* no closing mark on this line: the line end is part of the field
         IF p < Len(src)
         THEN ParseQuoted(src, p + 1, src[p + 1], rec, buf \o l \o <<"\n">>, d)
         ELSE [record |-> Append(rec, buf \o l \o <<"\n">>), pos |-> p + 1]

\* line 97: one reader.Read().  err is "EOF", "delim", "fieldcount" or "nil"
ReaderRead(src, p, fpr, d) ==
    IF ~ValidDelim(d)
    THEN [record |-> << >>, err |-> "delim", pos |-> p, fpr |-> fpr]
    ELSE LET q == SkipBlank(src, p) IN
         IF q > Len(src)
         THEN [record |-> << >>, err |-> "EOF", pos |-> q, fpr |-> fpr]
         ELSE LET r == ParseField(src, q, src[q], << >>, d) IN
              [record |-> r.record,
               err    |-> IF fpr > 0 /\ Len(r.record) # fpr THEN "fieldcount" ELSE "nil",
               pos    |-> r.pos,
               fpr    |-> IF fpr = 0 THEN Len(r.record) ELSE fpr]

\* faulty variant: the start line itself is skipped too
PastStart_OffByOne(ln, sr) == ln >= sr

\* line 117
PastStart(ln, sr) == ln >= sr - 1

\* lines 134-140
SheetExists(list, name) == \E k \in 1..Len(list) : list[k] = name

\* faulty variant: the widest row decides, not the first
RECURSIVE WidestRow(_)
WidestRow(rs) ==
    IF Len(rs) = 0 THEN 0
    ELSE LET w == WidestRow(Tail(rs)) IN IF Len(rs[1]) > w THEN Len(rs[1]) ELSE w
MaxColsOf_Widest(rs) == IF Len(rs) > 0 THEN WidestRow(rs) ELSE ExcelMaxCols

\* lines 158-164
MaxColsOf(rs) == IF Len(rs) > 0 THEN Len(rs[1]) ELSE ExcelMaxCols

\* faulty variant: the last existing row is overwritten
NextRowOf_LastRow(rs) == Len(rs)

\* line 167
NextRowOf(rs) == Len(rs) + 1

\* line 174
TooManyFields(numFields, mc) == numFields > mc

\* faulty variant: 0-based column passed to CoordinatesToCellName
CellWrites_ZeroBased(row, nr, i) ==
    [j \in 1..Len(row) |-> [col |-> j - 1, row |-> nr + i, value |-> row[j]]]

\* lines 191-194: the SetCellValue calls for record number i (0-based)
CellWrites(row, nr, i) ==
    [j \in 1..Len(row) |-> [col |-> (j - 1) + 1, row |-> nr + i, value |-> row[j]]]

\* lines 105 and 178: os.Create makes (or truncates) the file
CreateLog(disk) == [exists |-> TRUE, lines |-> << >>]

\* lines 113 and 186: one "<label>: <raw>\n" line written through the handle
WriteLog(disk, label, raw) ==
    [disk EXCEPT !.lines = Append(@, [label |-> label, raw |-> raw])]

ErrLabel == "Error reading line"
WideLabel == "Not appended (too many fields)"

\* the -errors.log file before the run: absent, or left by an earlier run
\* with the same -o (nothing in main() removes it)
NoLog == [exists |-> FALSE, lines |-> << >>]
StaleLog == [exists |-> TRUE, lines |-> <<[label |-> WideLabel, raw |-> <<"o", "l", "d">>]>>]

\* ----------------------------------------------------------------- state
VARIABLES
    pc,               \* position in main()
    token,            \* -d
    startRow,         \* -r
    source,           \* content of the -i file
    delim,            \* reader.Comma
    fileHandle,       \* "none", "open" or "closed"
    readPos,          \* reader: index of the next physical line
    fieldsPerRecord,  \* reader.FieldsPerRecord
    csvData,
    lineNumber,
    hasErrors,
    errorCount,
    notAppendedCount,
    logHandle,        \* "none", "open" or "closed"
    logCloses,        \* number of logFile.Close() calls made
    logDisk,          \* the -errors.log file on disk
    deferred,         \* stack of deferred Close calls
    sheetList,
    rows,
    maxCols,
    nextRow,
    placeIdx,         \* i of the placement loop
    cells,            \* SetCellValue calls made so far
    outputWritten,    \* SaveAs has written the -o file
    exitReason        \* "running", "usage", "success" or the fatal error

vars == <<pc, token, startRow, source, delim, fileHandle, readPos, fieldsPerRecord,
          csvData, lineNumber, hasErrors, errorCount, notAppendedCount, logHandle,
          logCloses, logDisk, deferred, sheetList, rows, maxCols, nextRow, placeIdx,
          cells, outputWritten, exitReason>>

inputVars == <<token, startRow, source>>
readerVars == <<readPos, fieldsPerRecord>>
parseVars == <<csvData, lineNumber, errorCount>>
logVars == <<hasErrors, logHandle, logCloses, logDisk>>
docVars == <<sheetList, rows, maxCols, nextRow>>
placeVars == <<placeIdx, cells, notAppendedCount>>

Init ==
    /\ pc = "flags"
    /\ token \in DelimiterTokens
    /\ startRow \in StartRows
    /\ source \in Sources
    /\ delim = ""
    /\ fileHandle = "none"
    /\ readPos = 1
    /\ fieldsPerRecord = 0
    /\ csvData = << >>
    /\ lineNumber = 0
    /\ hasErrors = FALSE
    /\ errorCount = 0
    /\ notAppendedCount = 0
    /\ logHandle = "none"
    /\ logCloses = 0
    /\ logDisk \in {NoLog, StaleLog}
    /\ deferred = << >>
    /\ sheetList = << >>
    /\ rows = << >>
    /\ maxCols = 0
    /\ nextRow = 0
    /\ placeIdx = 0
    /\ cells = << >>
    /\ outputWritten = FALSE
    /\ exitReason = "running"

\* log.Fatal / log.Fatalf / os.Exit: the process ends at once, deferred calls
\* are not run
Exit(reason) ==
    /\ pc' = "exit"
    /\ exitReason' = reason

\* lines 41-53
ParseFlags ==
    /\ pc = "flags"
    /\ \E argsGiven \in BOOLEAN, required \in BOOLEAN :
         IF ~argsGiven THEN Exit("usage")
         ELSE IF ~required THEN Exit("missing_flag")
         ELSE pc' = "delimiter" /\ UNCHANGED exitReason
    /\ UNCHANGED <<inputVars, delim, fileHandle, readerVars, parseVars, logVars,
                   deferred, docVars, placeVars, outputWritten>>

\* lines 60-73
SetDelimiter ==
    /\ pc = "delimiter"
    /\ IF ResolveDelimiter(token) = ""
       THEN Exit("invalid_delimiter") /\ UNCHANGED delim
       ELSE /\ delim' = ResolveDelimiter(token)
            /\ pc' = "open_source"
            /\ UNCHANGED exitReason
    /\ UNCHANGED <<inputVars, fileHandle, readerVars, parseVars, logVars,
                   deferred, docVars, placeVars, outputWritten>>

\* lines 81-86
OpenSource ==
    /\ pc = "open_source"
    /\ \E ok \in BOOLEAN :
         IF ok
         THEN /\ fileHandle' = "open"
              /\ deferred' = Append(deferred, "file")
              /\ pc' = "parse"
              /\ UNCHANGED exitReason
         ELSE Exit("open_source") /\ UNCHANGED <<fileHandle, deferred>>
    /\ UNCHANGED <<inputVars, delim, readerVars, parseVars, logVars, docVars,
                   placeVars, outputWritten>>

\* lines 102-110 and 175-183 followed by the write at 113 / 186.
\* createOk is the outcome of os.Create when the log is not open yet.
LogFailure(createOk, label, raw) ==
    IF hasErrors
    THEN /\ logDisk' = WriteLog(logDisk, label, raw)
         /\ UNCHANGED <<hasErrors, logHandle, deferred>>
    ELSE /\ hasErrors' = TRUE
         /\ IF createOk
            THEN /\ logHandle' = "open"
                 /\ deferred' = Append(deferred, "log")
                 /\ logDisk' = WriteLog(CreateLog(logDisk), label, raw)
            ELSE UNCHANGED <<logHandle, deferred, logDisk>>

LogFatal(createOk) == ~hasErrors /\ ~createOk

\* lines 96-125: one iteration of the parse loop
ReadRecord ==
    /\ pc = "parse"
    /\ LET r == ReaderRead(source, readPos, fieldsPerRecord, delim) IN
       /\ readPos' = r.pos
       /\ fieldsPerRecord' = r.fpr
       /\ IF r.err = "EOF"
          THEN /\ pc' = "open_template"
               /\ UNCHANGED <<parseVars, hasErrors, logHandle, logDisk, deferred, exitReason>>
          ELSE IF r.err # "nil"
          THEN /\ errorCount < MaxReadErrors
               /\ \E createOk \in BOOLEAN :
                    /\ LogFailure(createOk, ErrLabel, Join(r.record, delim))
                    /\ IF LogFatal(createOk)
                       THEN Exit("create_log") /\ UNCHANGED errorCount
                       ELSE /\ errorCount' = errorCount + 1
                            /\ UNCHANGED <<pc, exitReason>>
               /\ UNCHANGED <<csvData, lineNumber>>
          ELSE /\ csvData' = IF PastStart(lineNumber, startRow)
                             THEN Append(csvData, Sanitize(r.record))
                             ELSE csvData
               /\ lineNumber' = lineNumber + 1
               /\ UNCHANGED <<pc, errorCount, hasErrors, logHandle, logDisk, deferred,
                              exitReason>>
    /\ UNCHANGED <<inputVars, delim, fileHandle, logCloses, docVars, placeVars,
                   outputWritten>>

\* lines 127-131
OpenTemplate ==
    /\ pc = "open_template"
    /\ \E ok \in BOOLEAN :
         IF ok
         THEN /\ \E list \in SheetLists : sheetList' = list
              /\ pc' = "check_sheet"
              /\ UNCHANGED exitReason
         ELSE Exit("open_template") /\ UNCHANGED sheetList
    /\ UNCHANGED <<inputVars, delim, fileHandle, readerVars, parseVars, logVars,
                   deferred, rows, maxCols, nextRow, placeVars, outputWritten>>

\* lines 133-144
CheckSheet ==
    /\ pc = "check_sheet"
    /\ IF SheetExists(sheetList, TargetSheet)
       THEN pc' = "plan" /\ UNCHANGED exitReason
       ELSE Exit("sheet_missing")
    /\ UNCHANGED <<inputVars, delim, fileHandle, readerVars, parseVars, logVars,
                   deferred, docVars, placeVars, outputWritten>>

\* lines 146-167
PlanGeometry ==
    /\ pc = "plan"
    /\ \E indexOk \in BOOLEAN, rowsOk \in BOOLEAN :
         IF ~indexOk THEN Exit("sheet_index") /\ UNCHANGED <<rows, maxCols, nextRow>>
         ELSE IF ~rowsOk THEN Exit("get_rows") /\ UNCHANGED <<rows, maxCols, nextRow>>
         ELSE /\ \E m \in SheetMatrices :
                   /\ rows' = m
                   /\ maxCols' = MaxColsOf(m)
                   /\ nextRow' = NextRowOf(m)
              /\ pc' = "place"
              /\ UNCHANGED exitReason
    /\ UNCHANGED <<inputVars, delim, fileHandle, readerVars, parseVars, logVars,
                   deferred, sheetList, placeVars, outputWritten>>

\* lines 170-195: one iteration of the placement loop
PlaceRecord ==
    /\ pc = "place"
    /\ placeIdx < Len(csvData)
    /\ LET row == csvData[placeIdx + 1] IN
       IF TooManyFields(Len(row), maxCols)
       THEN \E createOk \in BOOLEAN :
              /\ LogFailure(createOk, WideLabel, Join(row, delim))
              /\ IF LogFatal(createOk)
                 THEN Exit("create_log") /\ UNCHANGED <<notAppendedCount, placeIdx>>
                 ELSE /\ notAppendedCount' = notAppendedCount + 1
                      /\ placeIdx' = placeIdx + 1
                      /\ UNCHANGED <<pc, exitReason>>
              /\ UNCHANGED cells
       ELSE /\ cells' = cells \o CellWrites(row, nextRow, placeIdx)
            /\ placeIdx' = placeIdx + 1
            /\ UNCHANGED <<pc, exitReason, notAppendedCount, hasErrors, logHandle,
                           logDisk, deferred>>
    /\ UNCHANGED <<inputVars, delim, fileHandle, readerVars, parseVars, logCloses,
                   docVars, outputWritten>>

\* lines 197-200
SaveAs ==
    /\ pc = "place"
    /\ placeIdx >= Len(csvData)
    /\ \E ok \in BOOLEAN :
         IF ok
         THEN outputWritten' = TRUE /\ pc' = "summary" /\ UNCHANGED exitReason
         ELSE Exit("save") /\ UNCHANGED outputWritten
    /\ UNCHANGED <<inputVars, delim, fileHandle, readerVars, parseVars, logVars,
                   deferred, docVars, placeVars>>

\* lines 202-208: the summary, then main returns and the deferred Close calls
\* run, last registered first
Summary ==
    /\ pc = "summary"
    /\ fileHandle' = IF \E k \in 1..Len(deferred) : deferred[k] = "file"
                     THEN "closed" ELSE fileHandle
    /\ logHandle' = IF \E k \in 1..Len(deferred) : deferred[k] = "log"
                    THEN "closed" ELSE logHandle
    /\ logCloses' = logCloses + Cardinality({k \in 1..Len(deferred) : deferred[k] = "log"})
    /\ deferred' = << >>
    /\ Exit("success")
    /\ UNCHANGED <<inputVars, delim, readerVars, parseVars, hasErrors, logDisk,
                   docVars, placeVars, outputWritten>>

Next ==
    \/ ParseFlags
    \/ SetDelimiter
    \/ OpenSource
    \/ ReadRecord
    \/ OpenTemplate
    \/ CheckSheet
    \/ PlanGeometry
    \/ PlaceRecord
    \/ SaveAs
    \/ Summary

Spec == Init /\ [][Next]_vars

\* ------------------------------------------------------------ properties

FatalFailures ==
    {"missing_flag", "invalid_delimiter", "open_source", "create_log",
     "open_template", "sheet_missing", "sheet_index", "get_rows", "save"}

\* the parse loop has ended (the parse variables no longer change)
AfterParse ==
    \/ pc \in {"open_template", "check_sheet", "plan", "place", "summary"}
    \/ exitReason = "success"

\* the sheet geometry has been computed
Planned == pc \in {"place", "summary"} \/ exitReason \in {"save", "success"}

\* the records of a source from line p on, as successive reads return them
RECURSIVE RecordsFrom(_, _, _)
RecordsFrom(src, p, d) ==
    LET q == SkipBlank(src, p) IN
    IF q > Len(src) THEN << >>
    ELSE LET r == ParseField(src, q, src[q], << >>, d)
         IN  <<r.record>> \o RecordsFrom(src, r.pos, d)

Records == RecordsFrom(source, 1, delim)

\* width of the first record, the width the reader then insists on
FirstWidth == IF Len(Records) = 0 THEN 0 ELSE Len(Records[1])

\* what this run has written to the log (os.Create empties an older file)
LogWritten == IF logHandle = "none" THEN << >> ELSE logDisk.lines

Min(a, b) == IF a < b THEN a ELSE b
Max(a, b) == IF a > b THEN a ELSE b

\* entries of the log carrying one label, in order
LogRaws(label) ==
    LET keep(e) == e.label = label
        kept == SelectSeq(LogWritten, keep)
    IN  [k \in 1..Len(kept) |-> kept[k].raw]

\* capacity as the sheet defines it
Capacity == IF Len(rows) > 0 THEN Len(rows[1]) ELSE ExcelMaxCols

\* placed-so-far records (0-based indices) that are wider than the capacity
WideIdx == {i \in 0..(placeIdx - 1) : Len(csvData[i + 1]) > Capacity}
FitIdx == {i \in 0..(placeIdx - 1) : Len(csvData[i + 1]) <= Capacity}

CellSet == {cells[k] : k \in 1..Len(cells)}

\* the writes the placement rule prescribes for the records placed so far
ExpectedCells ==
    UNION {{[col |-> j, row |-> Len(rows) + 1 + i, value |-> csvData[i + 1][j]] :
              j \in 1..Len(csvData[i + 1])} : i \in FitIdx}

\* C1 (as claimed): a run that completes normally has the log file on disk
\* exactly when a line was unparseable or a record was rejected, and a run in
\* which both counters stay 0 never creates it.
C1_Original ==
    exitReason = "success" =>
        /\ logDisk.exists <=> errorCount + notAppendedCount > 0
        /\ errorCount + notAppendedCount = 0 => logHandle = "none"

\* C2 (as claimed): when the run ends because the sheet name is unknown,
\* the run has written neither the output document nor the log file.
C2_Original ==
    exitReason = "sheet_missing" => (~outputWritten /\ logHandle = "none")

\* C3 (as claimed): after the parse pass, accepted records plus unparseable
\* lines equals the number of physical lines of the source.
C3_Original ==
    AfterParse => Len(csvData) + errorCount = Len(source)

\* C3 (amended): after the parse pass every record the reader returned is
\* counted exactly once, as accepted, as unparseable (its width is not the
\* first record's), or as skipped before the start offset; the skipped ones
\* are the first startRow - 1 records that parsed.  There are at most as many
\* records as non-blank lines: a quoted field left open takes the lines that
\* follow into its record.
C3_Amended ==
    AfterParse =>
        LET skipped == lineNumber - Len(csvData)
            recs == Records
            width == IF Len(recs) = 0 THEN 0 ELSE Len(recs[1])
        IN  /\ Len(csvData) + errorCount + skipped = Len(recs)
            /\ skipped = Min(Max(startRow - 1, 0), lineNumber)
            /\ errorCount = Cardinality({k \in 1..Len(recs) : Len(recs[k]) # width})
            /\ Len(recs) <= Cardinality({k \in 1..Len(source) : source[k] # LineBlank})

\* a record skipped, then a record of two physical lines accepted
C3_Witness ==
    /\ AfterParse
    /\ Len(csvData) > 0
    /\ lineNumber > Len(csvData)
    /\ Len(Records) < Cardinality({k \in 1..Len(source) : source[k] # LineBlank})

\* the records C4 says are kept: the parseable ones among the lines after the
\* first skip lines
RECURSIVE KeptRecords(_, _, _, _)
KeptRecords(ls, k, skip, width) ==
    IF k > Len(ls) THEN << >>
    ELSE IF k > skip /\ Len(ls[k]) = width
         THEN <<Sanitize(ls[k])>> \o KeptRecords(ls, k + 1, skip, width)
         ELSE KeptRecords(ls, k + 1, skip, width)

\* C4 (as claimed): with -r N the accepted records are the parseable lines
\* after the first N - 1 lines (all of them for N <= 1), and the excluded
\* lines are neither logged nor counted as errors, whatever precedes line N.
\* Lines are numbered as the reader numbers them, record by record.
C4_Original ==
    pc = "open_template" =>
        LET ls == Records
            skip == Max(startRow - 1, 0)
            errs == {k \in 1..Len(ls) : k > skip /\ Len(ls[k]) # FirstWidth}
        IN  /\ csvData = KeptRecords(ls, 1, skip, FirstWidth)
            /\ errorCount = Cardinality(errs)
            /\ Len(LogWritten) = Cardinality(errs)

\* C5: nextRow is the existing row count plus one, and the cell writes made so
\* far are exactly: for every placed record i (0-based) that fits, its field
\* at 0-based position j at column j + 1 of row nextRow + i, each written
\* once; a rejected record's row nextRow + i has no write.
C5_RowPlacement ==
    Planned =>
        /\ nextRow = Len(rows) + 1
        /\ CellSet = ExpectedCells
        /\ Len(cells) = Cardinality(CellSet)
        /\ \A i \in WideIdx : \A c \in CellSet : c.row # Len(rows) + 1 + i

C5_Witness ==
    /\ exitReason = "success"
    /\ Len(rows) >= 1
    /\ Len(csvData) >= 2
    /\ \E c \in CellSet : c.row = Len(rows) + 2 /\ c.col = 2

\* the joined text of the placed-so-far records that are too wide, in order
RECURSIVE WideRaws(_)
WideRaws(n) ==
    IF n = 0 THEN << >>
    ELSE IF Len(csvData[n]) > Capacity
         THEN Append(WideRaws(n - 1), Join(csvData[n], delim))
         ELSE WideRaws(n - 1)

\* C6: the capacity is the width of the sheet's first row; each placed record
\* wider than it has exactly one "Not appended (too many fields)" log line
\* with its fields rejoined, counts once in notAppendedCount and has no cell
\* write, and every record with a cell write is no wider than the capacity.
C6_WidthCheck ==
    Planned =>
        /\ Len(rows) > 0 => maxCols = Len(rows[1])
        /\ LogRaws(WideLabel) = WideRaws(placeIdx)
        /\ notAppendedCount = Cardinality(WideIdx)
        /\ \A c \in CellSet :
             /\ c.row - nextRow \in FitIdx
             /\ c.col <= Capacity

C6_Witness ==
    /\ exitReason = "success"
    /\ notAppendedCount >= 2
    /\ Len(rows) >= 2
    /\ Len(rows[1]) < Len(rows[2])
    /\ Len(rows[1]) > 0

ScenarioSource == <<LineAB, Line123, LineXY>>

\* C7 (as claimed): with an empty target sheet no line is rejected or logged
\* whatever its field count; for the source a,b / 1,2,3 / x,y with -r 1 and
\* delimiter csv all three lines are accepted and written at rows 1, 2, 3,
\* and no log file is created.
C7_Original ==
    (exitReason = "success" /\ rows = << >>) =>
        /\ errorCount = 0
        /\ notAppendedCount = 0
        /\ logHandle = "none"
        /\ (source = ScenarioSource /\ startRow = 1 /\ token = TokenCsv) =>
             /\ Len(csvData) = 3
             /\ {c.row : c \in CellSet} = {1, 2, 3}

FinalStates == {"usage", "success"} \cup FatalFailures

\* C8 (as claimed): unparseable lines and oversized records never end the
\* run, which goes on to the remaining lines and records and ends.  Stated
\* on the steps of the run: a turn of the parse loop that stays in the loop
\* has moved on in the source, a turn of the placement loop that stays in the
\* loop has moved on to the next record, and the run is only ever ended by
\* normal completion or one of the listed fatal failures.
C8_Original ==
    [][/\ (pc = "parse" /\ pc' = "parse") => readPos' > readPos
       /\ (pc = "place" /\ pc' = "place") => placeIdx' = placeIdx + 1
       /\ (pc # "exit" /\ pc' = "exit") => exitReason' \in FinalStates]_vars

\* C9 (as claimed): on every exit path the source handle and the log handle,
\* if opened, have been closed when the process ends, the log exactly once.
C9_Original ==
    pc = "exit" =>
        /\ fileHandle # "open"
        /\ logHandle # "open"
        /\ logCloses <= 1
        /\ logHandle = "closed" => logCloses = 1

\* C10: every cell write targets a row after the existing rows, the placed
\* records that fit write to pairwise different rows (as many rows are written
\* as records with a field were placed), no cell is written twice, and
\* nextRow stays the existing row count plus one during placement.
C10_NoOverwrite ==
    Planned =>
        /\ nextRow = Len(rows) + 1
        /\ \A c \in CellSet : c.row >= Len(rows) + 1
        /\ \A a, b \in 1..Len(cells) :
             (a # b) => (cells[a].row # cells[b].row \/ cells[a].col # cells[b].col)
        /\ Cardinality({c.row : c \in CellSet})
             = Cardinality({i \in FitIdx : Len(csvData[i + 1]) > 0})

C10_Witness ==
    /\ exitReason = "success"
    /\ startRow <= 0
    /\ Len(rows) >= 2
    /\ Cardinality({c.row : c \in CellSet}) >= 2

====
